---- MODULE Spec2Model ----
(***************************************************************************)
(* The Streamlit dashboard script src/main.py as a state machine.          *)
(*                                                                         *)
(* A session is one browser tab: the framework keeps its widget values and *)
(* runs the script top to bottom on first load and after every widget      *)
(* change.  All sessions of one server live in one Python process, so the  *)
(* module-level state the script touches (numpy's global random source,    *)
(* matplotlib's rcParams written by seaborn) is shared by the sessions.    *)
(*                                                                         *)
(* Numbers: a float is held in fixed point, Unit steps per 1.0, and every  *)
(* arithmetic result is rounded to the nearest step (ties to even), which  *)
(* is what IEEE doubles do at a much finer step.                           *)
(***************************************************************************)
EXTENDS Integers, Sequences, FiniteSets

\* ------------------------------------------------------------- bounds

\* Widget changes explored over all sessions of one behaviour.
MaxChanges == 2

\* The random source starts at any of the stream positions 0..MaxSeed (the
\* script never seeds it, so the start is whatever the OS entropy gave).
MaxSeed == 0

\* Widget changes explored under fairness.
MaxFairChanges == 1

\* Widget changes explored when two sessions interleave.
MaxSharedChanges == 1

\* Fixed-point steps per 1.0.
Unit == 10 * 100

\* ------------------------------------------------- the sidebar's options

GraphTypes == {"Line Plot", "Scatter Plot", "Bar Chart", "Area Chart"}

Palettes == {"deep", "muted", "bright", "pastel", "dark", "colorblind"}

NumPointsMin == 10
NumPointsMax == 500
NumPointsDefault == 100

\* The slider positions explored: both ends, the default, and one value that
\* is not a multiple of the bar chart's stride.
NumPointsValues == {NumPointsMin, 25, NumPointsDefault, NumPointsMax}

\* Noise Level slider, 0.0 to 1.0, default 0.1: both ends and the default.
NoiseLevelDefault == Unit \div 10
NoiseLevelValues == {0, NoiseLevelDefault, Unit}

\* A graph_type the selectbox cannot return (a broken integration).
OutOfEnum == "Pie Chart"

Defaults ==
  [graph_type |-> "Line Plot", color_palette |-> "deep",
   show_grid |-> TRUE, show_legend |-> TRUE, show_annotations |-> TRUE,
   num_points |-> NumPointsDefault, noise_level |-> NoiseLevelDefault]

\* ----------------------------------------------------------- arithmetic

Abs(a) == IF a < 0 THEN -a ELSE a

\* a / b for b > 0, rounded to the nearest integer, ties to even.
RoundHalfEven(a, b) ==
  LET q == a \div b
      r == a % b
  IN  IF 2 * r < b THEN q
      ELSE IF 2 * r > b THEN q + 1
      ELSE IF q % 2 = 0 THEN q ELSE q + 1

\* Variant: np.linspace(..., endpoint=False), steps of (stop - start) / num.
LinspaceNoEndpoint(start, stop, num) ==
  [i \in 1..num |-> start + RoundHalfEven((i - 1) * (stop - start), num)]

\* Variant: one sample too few.
LinspaceShort(start, stop, num) ==
  [i \in 1..(num - 1) |->
     IF i = num - 1 THEN stop
     ELSE start + RoundHalfEven((i - 1) * (stop - start), num - 2)]

\* np.linspace(start, stop, num), endpoint included: num samples, the i-th
\* (from 0) at start + i * (stop - start) / (num - 1), the last set to stop.
Linspace(start, stop, num) ==
  [i \in 1..num |->
     IF i = num THEN stop
     ELSE start + RoundHalfEven((i - 1) * (stop - start), num - 1)]

\* pi and 2 pi in fixed point.
Pi == RoundHalfEven(314159 * Unit, 100000)
TwoPi == RoundHalfEven(628319 * Unit, 100000)

\* sin on [0, pi] (Bhaskara's rational approximation, exact at 0, pi/6,
\* pi/2, 5pi/6 and pi, within 0.002 elsewhere).
SinHalfWave(t) ==
  LET p == t * (Pi - t)
      den == 5 * Pi * Pi - 4 * p
  IN  RoundHalfEven(16 * p, den \div Unit)

\* np.sin, np.cos on one value.
Sin(v) ==
  LET t == v % TwoPi
  IN  IF t <= Pi THEN SinHalfWave(t) ELSE -SinHalfWave(t - Pi)

Cos(v) == Sin(v + RoundHalfEven(Pi, 2))

\* ------------------------------------------------------ the random source

\* numpy's global RandomState is a deterministic stream; its state is the
\* position in the stream.  RawDraw(k) is the k-th raw output, 0..255.
RngPeriod == 2 ^ 16
RawDraw(k) == (((k % RngPeriod) * 25173 + 13849) % RngPeriod) \div 256

\* A standard normal variate from a raw output: eight equally likely
\* values, the midpoint quantiles of N(0, 1).
StandardNormal(u) ==
  LET q == <<-1534, -887, -489, -157, 157, 489, 887, 1534>>
  IN  RoundHalfEven(q[(u \div 32) + 1] * Unit, 1000)

\* Variant: the variates added without the scale.
NormalUnscaled(loc, scale, size, pos) ==
  [i \in 1..size |-> loc + StandardNormal(RawDraw(pos + i))]

\* np.random.normal(loc, scale, size) drawn at stream position pos:
\* loc + scale * z for size successive standard normal variates z.
Normal(loc, scale, size, pos) ==
  [i \in 1..size |->
     loc + RoundHalfEven(scale * StandardNormal(RawDraw(pos + i)), Unit)]

\* np.random.choice(options, size=size) drawn at stream position pos.
Choice(options, size, pos) ==
  [i \in 1..size |-> options[(RawDraw(pos + i) % Len(options)) + 1]]

\* ------------------------------------------------------------- sequences

\* a + b element by element (numpy broadcasting of equal-length arrays).
AddSeq(a, b) == [i \in 1..Len(a) |-> a[i] + b[i]]

\* a[::step]: the elements at indices 0, step, 2 step, ... of a.
Stride(a, step) ==
  [i \in 1..((Len(a) + step - 1) \div step) |-> a[(i - 1) * step + 1]]

\* a[:k]
Prefix(a, k) == SubSeq(a, 1, IF Len(a) < k THEN Len(a) ELSE k)

\* np.max, np.min, np.argmax (first index of the maximum, from 1 here).
NpMax(a) ==
  CHOOSE m \in {a[i] : i \in DOMAIN a} : \A i \in DOMAIN a : a[i] <= m

NpMin(a) ==
  CHOOSE m \in {a[i] : i \in DOMAIN a} : \A i \in DOMAIN a : a[i] >= m

NpArgMax(a) ==
  CHOOSE i \in DOMAIN a :
    \A j \in DOMAIN a : a[j] < a[i] \/ (a[j] = a[i] /\ j >= i)

\* f"{v:.2f}": the sign, the whole part and the two decimals printed.
Format2f(v) ==
  LET h == RoundHalfEven(Abs(v) * 100, Unit)
  IN  [neg |-> v < 0, whole |-> h \div 100, cents |-> h % 100]

\* ------------------------------------------------------------------ state

Sessions == {1, 2}

Stages ==
  <<"collect", "gen_x", "gen_y1", "gen_y2", "gen_categories", "set_style",
    "set_palette", "subplots", "plot", "customize", "pyplot", "summary">>

VARIABLES
  widgets,     \* per session: the framework's widget values
  pc,          \* per session: the next statement group of the script, or "done"
  params,      \* per session: graph_type .. noise_level as the script read them
  x, y1, y2, categories,   \* per session: the script's dataset variables
  fig,         \* per session: <<>> or <<the figure being built>>
  scatter,     \* per session: <<>> or <<the scatter series>> (local `scatter`)
  page,        \* per session: what the run has put on the page so far
  rng,         \* the process's global random source: its stream position
  rcParams,    \* the process's global matplotlib settings
  ran,         \* per session: the statement groups and branches run this cycle
  prev,        \* per session: the previous cycle's parameters and dataset
  changes      \* widget changes so far

vars ==
  <<widgets, pc, params, x, y1, y2, categories, fig, scatter, page, rng,
    rcParams, ran, prev, changes>>

\* The session's dataset variables as one record: every statement after
\* line 43 has all four in scope.
Dataset(s) ==
  [x |-> x[s], y1 |-> y1[s], y2 |-> y2[s], categories |-> categories[s]]

NoPrev == [valid |-> FALSE, params |-> Defaults,
           x |-> <<>>, y1 |-> <<>>, y2 |-> <<>>]

\* matplotlib's settings before the script first touches them.
RcDefaults ==
  [style |-> "default", palette |-> "default",
   font_size |-> 10, labelsize |-> 10, titlesize |-> 12]

InitWith(w) ==
  /\ widgets = [s \in Sessions |-> w]
  /\ pc = [s \in Sessions |-> "collect"]
  /\ params = [s \in Sessions |-> w]
  /\ x = [s \in Sessions |-> <<>>]
  /\ y1 = [s \in Sessions |-> <<>>]
  /\ y2 = [s \in Sessions |-> <<>>]
  /\ categories = [s \in Sessions |-> <<>>]
  /\ fig = [s \in Sessions |-> <<>>]
  /\ scatter = [s \in Sessions |-> <<>>]
  /\ page = [s \in Sessions |-> <<>>]
  /\ rng \in 0..MaxSeed
  /\ rcParams = RcDefaults
  /\ ran = [s \in Sessions |-> <<>>]
  /\ prev = [s \in Sessions |-> NoPrev]
  /\ changes = 0

\* First load: every widget at its default.
Init == InitWith(Defaults)

\* ------------------------------------------------- the script's statements

\* Variant: the summary panel computed before the figure is emitted.
NextStageSummaryFirst(stage) ==
  IF stage = "customize" THEN "summary"
  ELSE IF stage = "summary" THEN "pyplot"
  ELSE IF stage = "pyplot" THEN "done"
  ELSE LET i == CHOOSE k \in 1..Len(Stages) : Stages[k] = stage
       IN  Stages[i + 1]

\* The statement group after `stage` in the file's order.
NextStage(stage) ==
  LET i == CHOOSE k \in 1..Len(Stages) : Stages[k] = stage
  IN  IF i = Len(Stages) THEN "done" ELSE Stages[i + 1]

\* What every statement group does to the control state of session s.
Advance(s, stage) ==
  /\ pc[s] = stage
  /\ pc' = [pc EXCEPT ![s] = NextStage(stage)]
  /\ ran' = [ran EXCEPT ![s] = Append(@, stage)]

\* Lines 8-37: page header, then the sidebar widgets hand the script their
\* current values.  A run starts with a fresh namespace and an empty page.
Collect(s) ==
  /\ pc[s] = "collect"
  /\ pc' = [pc EXCEPT ![s] = NextStage("collect")]
  /\ ran' = [ran EXCEPT ![s] = <<"collect">>]
  /\ params' = [params EXCEPT ![s] = widgets[s]]
  /\ page' = [page EXCEPT ![s] = <<[kind |-> "title"], [kind |-> "markdown"]>>]
  /\ UNCHANGED <<widgets, x, y1, y2, categories, fig, scatter, rng, rcParams,
                 prev, changes>>

\* Line 40: x = np.linspace(0, 10, num_points)
GenX(s) ==
  /\ Advance(s, "gen_x")
  /\ x' = [x EXCEPT ![s] = Linspace(0, 10 * Unit, params[s].num_points)]
  /\ UNCHANGED <<widgets, params, y1, y2, categories, fig, scatter, page,
                 rng, rcParams, prev, changes>>

\* np.sin(x), np.cos(x) over an array.
SinSeq(a) == [i \in 1..Len(a) |-> Sin(a[i])]
CosSeq(a) == [i \in 1..Len(a) |-> Cos(a[i])]

\* Line 41: y1 = np.sin(x) + np.random.normal(0, noise_level, num_points)
GenY1(s) ==
  /\ Advance(s, "gen_y1")
  /\ y1' = [y1 EXCEPT ![s] =
              AddSeq(SinSeq(x[s]),
                     Normal(0, params[s].noise_level, params[s].num_points, rng))]
  /\ rng' = (rng + params[s].num_points) % RngPeriod
  /\ UNCHANGED <<widgets, params, x, y2, categories, fig, scatter, page,
                 rcParams, prev, changes>>

\* Line 42: y2 = np.cos(x) + np.random.normal(0, noise_level, num_points)
GenY2(s) ==
  /\ Advance(s, "gen_y2")
  /\ y2' = [y2 EXCEPT ![s] =
              AddSeq(CosSeq(x[s]),
                     Normal(0, params[s].noise_level, params[s].num_points, rng))]
  /\ rng' = (rng + params[s].num_points) % RngPeriod
  /\ UNCHANGED <<widgets, params, x, y1, categories, fig, scatter, page,
                 rcParams, prev, changes>>

\* Line 43: categories = np.random.choice(['A', 'B', 'C'], size=num_points)
GenCategories(s) ==
  /\ Advance(s, "gen_categories")
  /\ categories' = [categories EXCEPT ![s] =
                      Choice(<<"A", "B", "C">>, params[s].num_points, rng)]
  /\ rng' = (rng + params[s].num_points) % RngPeriod
  /\ UNCHANGED <<widgets, params, x, y1, y2, fig, scatter, page, rcParams,
                 prev, changes>>

\* Line 46: sns.set_style("whitegrid" if show_grid else "white")
StyleFor(show_grid) == IF show_grid THEN "whitegrid" ELSE "white"

SetStyle(s) ==
  /\ Advance(s, "set_style")
  /\ rcParams' = [rcParams EXCEPT !.style = StyleFor(params[s].show_grid)]
  /\ UNCHANGED <<widgets, params, x, y1, y2, categories, fig, scatter, page,
                 rng, prev, changes>>

\* Lines 47-50: sns.set_palette(color_palette) and the three font sizes.
SetPalette(s) ==
  /\ Advance(s, "set_palette")
  /\ rcParams' = [rcParams EXCEPT !.palette = params[s].color_palette,
                                  !.font_size = 12, !.labelsize = 14,
                                  !.titlesize = 16]
  /\ UNCHANGED <<widgets, params, x, y1, y2, categories, fig, scatter, page,
                 rng, prev, changes>>

\* Line 53: plt.subplots(figsize=(10, 6)): the new axes take their style,
\* colour cycle and font sizes from rcParams as they are now.
NewFigure(rc) ==
  [figsize |-> <<10, 6>>, style |-> rc.style, palette |-> rc.palette,
   font_size |-> rc.font_size, labelsize |-> rc.labelsize,
   titlesize |-> rc.titlesize,
   series |-> <<>>, annotations |-> <<>>,
   title |-> <<>>, xlabel |-> "", ylabel |-> "",
   grid |-> <<>>, axisbelow |-> FALSE, yformat |-> "",
   legend |-> <<>>, colorbar |-> <<>>]

Subplots(s) ==
  /\ Advance(s, "subplots")
  /\ fig' = [fig EXCEPT ![s] = <<NewFigure(rcParams)>>]
  /\ UNCHANGED <<widgets, params, x, y1, y2, categories, scatter, page, rng,
                 rcParams, prev, changes>>

\* n / d as a fixed-point number (0.7 is Frac(7, 10)).
Frac(n, d) == (n * Unit) \div d

\* Variant: three separate ifs, the last with an else.
BranchesTakenNoElif(graph_type) ==
  (IF graph_type = "Line Plot" THEN <<"line">> ELSE <<>>)
  \o (IF graph_type = "Scatter Plot" THEN <<"scatter">> ELSE <<>>)
  \o (IF graph_type = "Bar Chart" THEN <<"bar">> ELSE <<"area">>)

\* Lines 56-70: which branch bodies of the if / elif chain run for a
\* graph_type, in order.
BranchesTaken(graph_type) ==
  IF graph_type = "Line Plot" THEN <<"line">>
  ELSE IF graph_type = "Scatter Plot" THEN <<"scatter">>
  ELSE IF graph_type = "Bar Chart" THEN <<"bar">>
  ELSE IF graph_type = "Area Chart" THEN <<"area">>
  ELSE <<>>

\* Lines 57-58
LineSeries(d) ==
  <<[kind |-> "line", label |-> "Sine Wave", xs |-> d.x, ys |-> d.y1,
     c |-> <<>>,
     opts |-> [linewidth |-> Frac(5, 2), marker |-> "o", markevery |-> 5,
               markersize |-> 6, linestyle |-> "-"]],
    [kind |-> "line", label |-> "Cosine Wave", xs |-> d.x, ys |-> d.y2,
     c |-> <<>>,
     opts |-> [linewidth |-> Frac(5, 2), marker |-> "", markevery |-> 1,
               markersize |-> 6, linestyle |-> "--"]]>>

\* Variant: the points coloured by category.
ScatterSeriesByCategory(d) ==
  <<[kind |-> "scatter", label |-> "Data Points", xs |-> d.x, ys |-> d.y1,
     c |-> d.categories,
     opts |-> [cmap |-> "viridis", s |-> 100, alpha |-> Frac(7, 10)]]>>

\* Line 60
ScatterSeries(d) ==
  <<[kind |-> "scatter", label |-> "Data Points", xs |-> d.x, ys |-> d.y1,
     c |-> d.y2,
     opts |-> [cmap |-> "viridis", s |-> 100, alpha |-> Frac(7, 10)]]>>

\* Lines 61-64: the annotation at the first maximum of y1.
PeakAnnotation(p, d) ==
  IF p.show_annotations
  THEN LET peak == <<d.x[NpArgMax(d.y1)], NpMax(d.y1)>>
       IN  <<[text |-> "Peak Value", xy |-> peak,
              xytext |-> <<peak[1] + Unit, peak[2] + Frac(1, 2)>>,
              arrowprops |-> [facecolor |-> "black", shrink |-> Frac(1, 20)]]>>
  ELSE <<>>

\* Lines 66-67: width=0.5, alpha=0.7
BarOpts == [width |-> Frac(1, 2), alpha |-> Frac(7, 10)]

\* Variant: every fifth sample.
BarSeriesEveryFifth(d) ==
  <<[kind |-> "bar", label |-> "Sine Values",
     xs |-> Stride(d.x, 5), ys |-> Stride(d.y1, 5), c |-> <<>>,
     opts |-> BarOpts],
    [kind |-> "bar", label |-> "Cosine Values",
     xs |-> [i \in 1..Len(Stride(d.x, 5)) |-> Stride(d.x, 5)[i] + Frac(1, 2)],
     ys |-> Stride(d.y2, 5), c |-> <<>>, opts |-> BarOpts]>>

\* Lines 66-67: every tenth sample, the second series 0.5 to the right.
BarSeries(d) ==
  <<[kind |-> "bar", label |-> "Sine Values",
     xs |-> Stride(d.x, 10), ys |-> Stride(d.y1, 10), c |-> <<>>,
     opts |-> BarOpts],
    [kind |-> "bar", label |-> "Cosine Values",
     xs |-> [i \in 1..Len(Stride(d.x, 10)) |-> Stride(d.x, 10)[i] + Frac(1, 2)],
     ys |-> Stride(d.y2, 10), c |-> <<>>, opts |-> BarOpts]>>

\* Lines 69-70: fill_between(x, y) fills between y and 0.
AreaSeries(d) ==
  <<[kind |-> "fill", label |-> "Sine Wave", xs |-> d.x, ys |-> d.y1,
     c |-> <<>>, opts |-> [alpha |-> Frac(2, 5)]],
    [kind |-> "fill", label |-> "Cosine Wave", xs |-> d.x, ys |-> d.y2,
     c |-> <<>>, opts |-> [alpha |-> Frac(2, 5)]]>>

\* One branch body: what it draws, annotates and binds to `scatter`.
BranchBody(b, p, d) ==
  IF b = "line"
  THEN [series |-> LineSeries(d), annotations |-> <<>>, scatter |-> <<>>]
  ELSE IF b = "scatter"
  THEN [series |-> ScatterSeries(d), annotations |-> PeakAnnotation(p, d),
        scatter |-> ScatterSeries(d)]
  ELSE IF b = "bar"
  THEN [series |-> BarSeries(d), annotations |-> <<>>, scatter |-> <<>>]
  ELSE [series |-> AreaSeries(d), annotations |-> <<>>, scatter |-> <<>>]

RECURSIVE RunBranches(_, _, _)
RunBranches(bs, p, d) ==
  IF bs = <<>>
  THEN [series |-> <<>>, annotations |-> <<>>, scatter |-> <<>>]
  ELSE LET h == BranchBody(Head(bs), p, d)
           t == RunBranches(Tail(bs), p, d)
       IN  [series |-> h.series \o t.series,
            annotations |-> h.annotations \o t.annotations,
            scatter |-> IF t.scatter # <<>> THEN t.scatter ELSE h.scatter]

\* Lines 56-70 as a whole.
PlotBranch(p, d) == RunBranches(BranchesTaken(p.graph_type), p, d)

Plot(s) ==
  /\ pc[s] = "plot"
  /\ pc' = [pc EXCEPT ![s] = NextStage("plot")]
  /\ ran' = [ran EXCEPT ![s] =
               Append(@, "plot") \o BranchesTaken(params[s].graph_type)]
  /\ LET drawn == PlotBranch(params[s], Dataset(s))
     IN  /\ fig' = [fig EXCEPT ![s] =
                      <<[fig[s][1] EXCEPT !.series = drawn.series,
                                          !.annotations = drawn.annotations]>>]
         /\ scatter' = [scatter EXCEPT ![s] = drawn.scatter]
  /\ UNCHANGED <<widgets, params, x, y1, y2, categories, page, rng, rcParams,
                 prev, changes>>

\* Lines 73-86: title, labels, grid, tick format, legend, colour bar.
CustomizePlot(f, p, sc) ==
  [f EXCEPT
     !.title = <<"Beautiful", p.graph_type>>,
     !.xlabel = "X Axis",
     !.ylabel = "Y Axis",
     !.grid = <<[on |-> p.show_grid, linestyle |-> "--", alpha |-> Frac(3, 5)]>>,
     !.axisbelow = TRUE,
     !.yformat = "{x:,.1f}",
     !.legend = IF p.show_legend
                THEN <<[loc |-> "upper right", framealpha |-> Unit]>>
                ELSE <<>>,
     !.colorbar = IF p.graph_type = "Scatter Plot" /\ sc # <<>>
                  THEN <<[mappable |-> sc[1].label, label |-> "Cosine Values"]>>
                  ELSE <<>>]

Customize(s) ==
  /\ Advance(s, "customize")
  /\ fig' = [fig EXCEPT ![s] = <<CustomizePlot(fig[s][1], params[s], scatter[s])>>]
  /\ UNCHANGED <<widgets, params, x, y1, y2, categories, scatter, page, rng,
                 rcParams, prev, changes>>

\* Line 89: st.pyplot(fig)
Pyplot(s) ==
  /\ Advance(s, "pyplot")
  /\ page' = [page EXCEPT ![s] = Append(@, [kind |-> "pyplot", fig |-> fig[s][1]])]
  /\ UNCHANGED <<widgets, params, x, y1, y2, categories, fig, scatter, rng,
                 rcParams, prev, changes>>

\* Variant: the sine metrics read y2 and the cosine metrics y1.
SummaryPanelSwapped(d) ==
  [kind |-> "expander",
   metrics |->
     <<[label |-> "Max Sine Value", value |-> Format2f(NpMax(d.y2))],
       [label |-> "Min Sine Value", value |-> Format2f(NpMin(d.y2))],
       [label |-> "Max Cosine Value", value |-> Format2f(NpMax(d.y1))],
       [label |-> "Min Cosine Value", value |-> Format2f(NpMin(d.y1))]>>,
   dataframe |->
     [X_Values |-> Prefix(d.x, 5), Sine_Values |-> Prefix(d.y1, 5),
      Cosine_Values |-> Prefix(d.y2, 5)]]

\* Lines 92-106: the four metrics and the preview of the first five rows.
SummaryPanel(d) ==
  [kind |-> "expander",
   metrics |->
     <<[label |-> "Max Sine Value", value |-> Format2f(NpMax(d.y1))],
       [label |-> "Min Sine Value", value |-> Format2f(NpMin(d.y1))],
       [label |-> "Max Cosine Value", value |-> Format2f(NpMax(d.y2))],
       [label |-> "Min Cosine Value", value |-> Format2f(NpMin(d.y2))]>>,
   dataframe |->
     [X_Values |-> Prefix(d.x, 5), Sine_Values |-> Prefix(d.y1, 5),
      Cosine_Values |-> Prefix(d.y2, 5)]]

\* Lines 92-116: the summary expander, then the closing tips.
Summary(s) ==
  /\ Advance(s, "summary")
  /\ page' = [page EXCEPT ![s] =
                @ \o <<SummaryPanel(Dataset(s)), [kind |-> "markdown"]>>]
  /\ UNCHANGED <<widgets, params, x, y1, y2, categories, fig, scatter, rng,
                 rcParams, prev, changes>>

\* ------------------------------------------------------------ the framework

\* The widget states one user action away from w: one control moved to
\* another of its options (selectbox, checkbox, slider).
OneControlChanged(w) ==
  {[w EXCEPT !.graph_type = g] : g \in GraphTypes \ {w.graph_type}}
  \cup {[w EXCEPT !.color_palette = c] : c \in Palettes \ {w.color_palette}}
  \cup {[w EXCEPT !.show_grid = ~@], [w EXCEPT !.show_legend = ~@],
        [w EXCEPT !.show_annotations = ~@]}
  \cup {[w EXCEPT !.num_points = n] : n \in NumPointsValues \ {w.num_points}}
  \cup {[w EXCEPT !.noise_level = v] : v \in NoiseLevelValues \ {w.noise_level}}

\* A user moves one control of an idle session: the framework stores the new
\* value and reruns the script from the top in a fresh namespace.
ChangeControl(s) ==
  /\ pc[s] = "done"
  /\ changes < MaxChanges
  /\ \E w \in OneControlChanged(widgets[s]) :
       widgets' = [widgets EXCEPT ![s] = w]
  /\ changes' = changes + 1
  /\ pc' = [pc EXCEPT ![s] = "collect"]
  /\ prev' = [prev EXCEPT ![s] =
                [valid |-> TRUE, params |-> params[s],
                 x |-> x[s], y1 |-> y1[s], y2 |-> y2[s]]]
  /\ x' = [x EXCEPT ![s] = <<>>]
  /\ y1' = [y1 EXCEPT ![s] = <<>>]
  /\ y2' = [y2 EXCEPT ![s] = <<>>]
  /\ categories' = [categories EXCEPT ![s] = <<>>]
  /\ fig' = [fig EXCEPT ![s] = <<>>]
  /\ scatter' = [scatter EXCEPT ![s] = <<>>]
  /\ UNCHANGED <<params, page, rng, rcParams, ran>>

\* One run of the script, a statement group at a time.
Run(s) ==
  \/ Collect(s)
  \/ GenX(s)
  \/ GenY1(s)
  \/ GenY2(s)
  \/ GenCategories(s)
  \/ SetStyle(s)
  \/ SetPalette(s)
  \/ Subplots(s)
  \/ Plot(s)
  \/ Customize(s)
  \/ Pyplot(s)
  \/ Summary(s)

\* One session in the process.
Next == Run(1) \/ ChangeControl(1)

Spec == Init /\ [][Next]_vars

\* One session whose script thread, once a run has started, is scheduled
\* until the run ends; MaxFairChanges widget changes.
NextFair == Run(1) \/ (changes < MaxFairChanges /\ ChangeControl(1))

FairSpec == Init /\ [][NextFair]_vars /\ WF_vars(Run(1))

\* One session, whose graph_type widget may hold a value outside the
\* selectbox's options when the first run starts.
InitOpen ==
  \E g \in {Defaults.graph_type, OutOfEnum} :
    InitWith([Defaults EXCEPT !.graph_type = g])

SpecOpen == InitOpen /\ [][Next]_vars

\* Two sessions in the process, their script threads interleaved at
\* statement-group boundaries.  One start of the random stream and
\* MaxSharedChanges widget changes keep the interleavings explorable.
InitSessions == Init /\ rng = 0

NextSessions ==
  \E s \in Sessions :
    \/ Run(s)
    \/ changes < MaxSharedChanges /\ ChangeControl(s)

SpecSessions == InitSessions /\ [][NextSessions]_vars

\* ------------------------------------------------------------------ claims

StageIndex(stage) == CHOOSE k \in 1..Len(Stages) : Stages[k] = stage

\* Session s has run statement group `stage` in its current cycle.
Past(s, stage) ==
  pc[s] = "done" \/ StageIndex(pc[s]) > StageIndex(stage)

\* The page elements of one kind that session s has emitted this cycle.
Emitted(s, kind) == SelectSeq(page[s], LAMBDA e : e.kind = kind)

\* Parameter records a and b differ in graph_type and in nothing else.
OnlyGraphTypeDiffers(a, b) ==
  /\ a.graph_type # b.graph_type
  /\ [a EXCEPT !.graph_type = b.graph_type] = b

\* C1: when a cycle differs from the one before it only in graph_type, its
\* x, y1 and y2 are the arrays of the cycle before.
C1_DatasetKeptAcrossGraphTypeChange ==
  \A s \in Sessions :
    (/\ pc[s] = "done"
     /\ prev[s].valid
     /\ OnlyGraphTypeDiffers(prev[s].params, params[s]))
    => /\ x[s] = prev[s].x
       /\ y1[s] = prev[s].y1
       /\ y2[s] = prev[s].y2

\* C2: once a cycle has generated its dataset, x, y1, y2 and categories all
\* have length num_points, for every num_points of the slider's range.
C2_LengthsEqualNumPoints ==
  \A s \in Sessions :
    /\ params[s].num_points \in NumPointsMin..NumPointsMax
    /\ Past(s, "gen_x") => Len(x[s]) = params[s].num_points
    /\ Past(s, "gen_y1") => Len(y1[s]) = params[s].num_points
    /\ Past(s, "gen_y2") => Len(y2[s]) = params[s].num_points
    /\ Past(s, "gen_categories") =>
         Len(categories[s]) = params[s].num_points

C2_Witness ==
  /\ pc[1] = "done"
  /\ params[1].num_points = NumPointsMax
  /\ Len(x[1]) = NumPointsMax
  /\ Len(categories[1]) = NumPointsMax

\* C3: a session's figure is styled by that session's own controls alone:
\* the axes carry the palette it selected and the grid style of its own
\* Show Grid box, whatever the other sessions do meanwhile.
C3_SessionsIsolated ==
  \A s \in Sessions :
    fig[s] # <<>> =>
      /\ fig[s][1].palette = params[s].color_palette
      /\ fig[s][1].style = (IF params[s].show_grid THEN "whitegrid" ELSE "white")

\* The stage of the pipeline a statement group or branch belongs to.
Phase(stage) ==
  IF stage = "collect" THEN 1
  ELSE IF stage \in {"gen_x", "gen_y1", "gen_y2", "gen_categories"} THEN 2
  ELSE IF stage \in {"set_style", "set_palette", "subplots", "plot",
                     "customize", "line", "scatter", "bar", "area"} THEN 3
  ELSE IF stage = "pyplot" THEN 4
  ELSE 5

\* What has run in session s's cycle so far is in pipeline order, nothing
\* twice; a finished cycle ran everything on the widgets' current values; a
\* first cycle reads the defaults.
CycleInOrder(s) ==
  /\ \A i, j \in 1..Len(ran[s]) : i < j => Phase(ran[s][i]) <= Phase(ran[s][j])
  /\ \A i, j \in 1..Len(ran[s]) : i # j => ran[s][i] # ran[s][j]
  /\ pc[s] = "done" =>
       /\ {"collect", "gen_x", "gen_y1", "gen_y2", "gen_categories",
           "set_style", "set_palette", "subplots", "plot", "customize",
           "pyplot", "summary"} \subseteq {ran[s][i] : i \in 1..Len(ran[s])}
       /\ params[s] = widgets[s]
       /\ Len(x[s]) = widgets[s].num_points
       /\ Len(Emitted(s, "pyplot")) = 1
       /\ Len(Emitted(s, "expander")) = 1
  /\ (changes = 0 /\ Past(s, "collect")) =>
       params[s] = [graph_type |-> "Line Plot", color_palette |-> "deep",
                    show_grid |-> TRUE, show_legend |-> TRUE,
                    show_annotations |-> TRUE, num_points |-> 100,
                    noise_level |-> Unit \div 10]

BranchesRun(s) ==
  SelectSeq(ran[s], LAMBDA b : b \in {"line", "scatter", "bar", "area"})

\* C5: for a graph_type of the selectbox exactly the matching branch runs;
\* for any other value no branch runs and nothing is drawn, and the title,
\* labels and figure emission still happen.
C5_OneMatchingBranch ==
  LET g == params[1].graph_type
      f == fig[1][1]
  IN  /\ Past(1, "plot") =>
           /\ g = "Line Plot" => BranchesRun(1) = <<"line">>
           /\ g = "Scatter Plot" => BranchesRun(1) = <<"scatter">>
           /\ g = "Bar Chart" => BranchesRun(1) = <<"bar">>
           /\ g = "Area Chart" => BranchesRun(1) = <<"area">>
           /\ g = "Line Plot" => \A i \in DOMAIN f.series : f.series[i].kind = "line"
           /\ g = "Scatter Plot" => \A i \in DOMAIN f.series : f.series[i].kind = "scatter"
           /\ g = "Bar Chart" => \A i \in DOMAIN f.series : f.series[i].kind = "bar"
           /\ g = "Area Chart" => \A i \in DOMAIN f.series : f.series[i].kind = "fill"
           /\ g \in GraphTypes => f.series # <<>>
           /\ g \notin GraphTypes =>
                BranchesRun(1) = <<>> /\ f.series = <<>> /\ f.annotations = <<>>
      /\ (pc[1] = "done" /\ g \notin GraphTypes) =>
           /\ f.title = <<"Beautiful", g>>
           /\ f.xlabel = "X Axis" /\ f.ylabel = "Y Axis"
           /\ Len(Emitted(1, "pyplot")) = 1
           /\ Emitted(1, "pyplot")[1].fig = f

C5_Witness ==
  /\ pc[1] = "done"
  /\ params[1].graph_type = OutOfEnum
  /\ BranchesRun(1) = <<>>
  /\ Len(Emitted(1, "pyplot")) = 1

\* C6: a Bar Chart cycle draws, in each of its two series, the samples at
\* indices 0, 10, 20, ... below num_points (ceil(num_points / 10) bars, 10
\* for 100 points), and the i-th bar of the second series stands 0.5 to the
\* right of the i-th bar of the first.
C6_BarsEveryTenthOffsetHalf ==
  (Past(1, "plot") /\ params[1].graph_type = "Bar Chart") =>
    LET sr == fig[1][1].series
        n == params[1].num_points
        bars == (n + 9) \div 10
    IN  /\ Len(sr) = 2
        /\ \A k \in 1..2 : Len(sr[k].xs) = bars /\ Len(sr[k].ys) = bars
        /\ n = 100 => Len(sr[1].xs) = 10 /\ Len(sr[2].xs) = 10
        /\ \A i \in 1..bars :
             /\ 10 * (i - 1) < n
             /\ sr[1].xs[i] = x[1][10 * (i - 1) + 1]
             /\ sr[1].ys[i] = y1[1][10 * (i - 1) + 1]
             /\ sr[2].ys[i] = y2[1][10 * (i - 1) + 1]
             /\ 2 * (sr[2].xs[i] - sr[1].xs[i]) = Unit
        /\ 10 * bars >= n

C6_Witness ==
  /\ pc[1] = "done"
  /\ params[1].graph_type = "Bar Chart"
  /\ params[1].num_points = 25
  /\ Len(fig[1][1].series[1].xs) = 3
  /\ fig[1][1].series[2].xs[3] = x[1][21] + Unit \div 2

\* Other category draws of the length of c, each different from c.
OtherCategories(c) ==
  {[i \in DOMAIN c |-> "A"], [i \in DOMAIN c |-> "C"],
   [i \in DOMAIN c |-> IF c[i] = "A" THEN "B" ELSE "A"]}

\* C7: the category draws never reach the output: with the categories
\* replaced by any other draw of the same length, the plotting statements
\* give the figure this cycle built and the summary statements give the
\* panel this cycle showed.
C7_CategoriesNeverInfluenceOutput ==
  \A c \in OtherCategories(categories[1]) :
    LET other == [Dataset(1) EXCEPT !.categories = c]
    IN  /\ Past(1, "plot") =>
             /\ fig[1][1].series = PlotBranch(params[1], other).series
             /\ fig[1][1].annotations = PlotBranch(params[1], other).annotations
             /\ scatter[1] = PlotBranch(params[1], other).scatter
        /\ Past(1, "pyplot") =>
             Emitted(1, "pyplot") = <<[kind |-> "pyplot", fig |-> fig[1][1]]>>
        /\ pc[1] = "done" =>
             Emitted(1, "expander") = <<SummaryPanel(other)>>

C7_Witness ==
  /\ pc[1] = "done"
  /\ params[1].graph_type = "Scatter Plot"
  /\ \E i, j \in DOMAIN categories[1] : categories[1][i] # categories[1][j]
  /\ \A c \in OtherCategories(categories[1]) : c # categories[1]

\* C8: with noise_level 0 every y1[i] is sin(x[i]) and every y2[i] is
\* cos(x[i]), wherever the random stream stands.
C8_NoNoiseGivesSinCos ==
  \A s \in Sessions :
    params[s].noise_level = 0 =>
      /\ Past(s, "gen_y1") =>
           \A i \in 1..params[s].num_points : y1[s][i] = Sin(x[s][i])
      /\ Past(s, "gen_y2") =>
           \A i \in 1..params[s].num_points : y2[s][i] = Cos(x[s][i])

C8_Witness ==
  /\ pc[1] = "done"
  /\ params[1].noise_level = 0
  /\ params[1].num_points = NumPointsMax
  /\ rng # 0
  /\ \E i \in DOMAIN y1[1] : y1[1][i] # 0

\* C9: x starts at 0, ends at 10, rises strictly, and its i-th value (from
\* 0) is 10 i / (num_points - 1) to within half a fixed-point step.
C9_XEvenlySpaced ==
  \A s \in Sessions :
    Past(s, "gen_x") =>
      LET n == params[s].num_points
      IN  /\ n \in NumPointsMin..NumPointsMax
          /\ DOMAIN x[s] = 1..n
          /\ x[s][1] = 0
          /\ x[s][n] = 10 * Unit
          /\ \A i \in 1..(n - 1) : x[s][i] < x[s][i + 1]
          /\ \A i \in 1..n :
               2 * Abs(x[s][i] * (n - 1) - 10 * Unit * (i - 1)) <= n - 1

C9_Witness ==
  /\ Past(1, "gen_x")
  /\ params[1].num_points = NumPointsMax
  /\ x[1][NumPointsMax] = 10 * Unit
  /\ x[1][2] = 20

\* The y1 and y2 samples figure f shows for graph type g, and their stride.
DrawnFrom(f, g) ==
  IF g = "Bar Chart"
  THEN [y1 |-> f.series[1].ys, y2 |-> f.series[2].ys, every |-> 10]
  ELSE IF g = "Scatter Plot"
  THEN [y1 |-> f.series[1].ys, y2 |-> f.series[1].c, every |-> 1]
  ELSE [y1 |-> f.series[1].ys, y2 |-> f.series[2].ys, every |-> 1]

\* C10: the four metrics shown are the maximum and minimum, to two
\* decimals, of the very y1 and y2 the cycle's figure was drawn from, and
\* the preview holds the first five rows of the same x, y1 and y2.
C10_SummaryOfTheDrawnData ==
  pc[1] = "done" =>
    LET e == Emitted(1, "expander")[1]
        f == Emitted(1, "pyplot")[1].fig
        d == DrawnFrom(f, params[1].graph_type)
    IN  /\ Len(Emitted(1, "expander")) = 1
        /\ d.y1 = Stride(y1[1], d.every)
        /\ d.y2 = Stride(y2[1], d.every)
        /\ e.metrics =
             <<[label |-> "Max Sine Value", value |-> Format2f(NpMax(y1[1]))],
               [label |-> "Min Sine Value", value |-> Format2f(NpMin(y1[1]))],
               [label |-> "Max Cosine Value", value |-> Format2f(NpMax(y2[1]))],
               [label |-> "Min Cosine Value", value |-> Format2f(NpMin(y2[1]))]>>
        /\ d.every = 1 =>
             /\ e.metrics[1].value = Format2f(NpMax(d.y1))
             /\ e.metrics[2].value = Format2f(NpMin(d.y1))
             /\ e.metrics[3].value = Format2f(NpMax(d.y2))
             /\ e.metrics[4].value = Format2f(NpMin(d.y2))
        /\ e.dataframe.X_Values = SubSeq(x[1], 1, 5)
        /\ e.dataframe.Sine_Values = SubSeq(y1[1], 1, 5)
        /\ e.dataframe.Cosine_Values = SubSeq(y2[1], 1, 5)

C10_Witness ==
  /\ pc[1] = "done"
  /\ changes > 0
  /\ params[1].noise_level = Unit
  /\ NpMax(y1[1]) # NpMax(y2[1])
  /\ NpMin(y1[1]) < 0
  /\ Len(Emitted(1, "expander")) = 1

====
